---- MODULE Spec2Model ----
(***************************************************************************)
(* Droop-controlled generators tracking a load profile on a single bus     *)
(* (Generator.py): Generator.dispatch, LoadProfile, Grid.run_simulation.   *)
(*                                                                         *)
(* Numbers are exact rationals [n |-> numerator, d |-> denominator] in     *)
(* lowest terms with d > 0.  The three non-finite values of numpy's        *)
(* float64 are kept as d = 0: 1/0 is +inf, -1/0 is -inf, 0/0 is nan.       *)
(* Rounding of the binary floating point format is not modelled.           *)
(***************************************************************************)
EXTENDS Integers, Sequences, FiniteSets, TLC

\* ------------------------------------------------------------------ bounds
MaxGens  == 2   \* generators constructed before the grid
MaxHours == 2   \* largest simulated horizon passed to LoadProfile
MaxCalls == 3   \* direct calls of dispatch made by the unit driver
MaxSteps == 4   \* loop iterations made on one grid over all its runs

\* -------------------------------------------------------------- arithmetic
\* The operators with two operands bind each operand to its value once
\* (x \in {a}), as Python evaluates an operand once before the operation.
\* Common factors are divided out before multiplying, so that intermediate
\* products stay small.
Abs(x) == IF x < 0 THEN -x ELSE x

Sign(x) == IF x < 0 THEN -1 ELSE IF x > 0 THEN 1 ELSE 0

RECURSIVE GCD(_, _)
GCD(a, b) == IF b = 0 THEN a ELSE CHOOSE g \in { GCD(b, r) : r \in {a % b} } : TRUE

\* n/d for any integers n, d; d = 0 gives inf, -inf or nan
Q(n, d) ==
    IF d = 0 THEN [n |-> Sign(n), d |-> 0]
    ELSE LET g == GCD(Abs(n), Abs(d))
             s == Sign(d)
         IN  [n |-> (s * n) \div g, d |-> (s * d) \div g]

I(n)  == [n |-> n, d |-> 1]
Zero  == I(0)
One   == I(1)
NaN   == [n |-> 0, d |-> 0]

IsNaN(x)    == x.d = 0 /\ x.n = 0
IsInf(x)    == x.d = 0 /\ x.n # 0
IsFinite(x) == x.d # 0
IsZero(x)   == x.d # 0 /\ x.n = 0

FNeg(x) == [n |-> -x.n, d |-> x.d]

FAdd(a, b) ==
    CHOOSE r \in {
        IF IsNaN(x) \/ IsNaN(y) THEN NaN
        ELSE IF IsInf(x) /\ IsInf(y) THEN (IF x.n = y.n THEN x ELSE NaN)
        ELSE IF IsInf(x) THEN x
        ELSE IF IsInf(y) THEN y
        ELSE LET g == GCD(x.d, y.d)
             IN  Q(x.n * (y.d \div g) + y.n * (x.d \div g), (x.d \div g) * y.d) :
        x \in {a}, y \in {b} } : TRUE

FSub(x, y) == FAdd(x, FNeg(y))

FMul(a, b) ==
    CHOOSE r \in {
        IF IsNaN(x) \/ IsNaN(y) THEN NaN
        ELSE IF IsInf(x) \/ IsInf(y)
             THEN Q(Sign(x.n) * Sign(y.n), 0)      \* inf * 0 is nan
        ELSE LET g == GCD(Abs(x.n), y.d)
                 h == GCD(Abs(y.n), x.d)
             IN  Q((x.n \div g) * (y.n \div h), (x.d \div h) * (y.d \div g)) :
        x \in {a}, y \in {b} } : TRUE

\* float64 division: a zero divisor gives inf or nan, never an exception
FDiv(a, b) ==
    CHOOSE r \in {
        IF IsNaN(x) \/ IsNaN(y) THEN NaN
        ELSE IF IsInf(y) THEN (IF IsInf(x) THEN NaN ELSE Zero)
        ELSE IF IsInf(x) THEN Q(x.n * (IF y.n < 0 THEN -1 ELSE 1), 0)
        ELSE IF y.n = 0 THEN Q(x.n, 0)
        ELSE FMul(x, [n |-> Sign(y.n) * y.d, d |-> Abs(y.n)]) :
        x \in {a}, y \in {b} } : TRUE

\* x <= y; false when either side is nan
FLe(a, b) ==
    CHOOSE r \in {
        IF IsNaN(x) \/ IsNaN(y) THEN FALSE
        ELSE IF IsInf(x) /\ IsInf(y) THEN x.n <= y.n
        ELSE IF IsInf(x) THEN x.n < 0
        ELSE IF IsInf(y) THEN y.n > 0
        ELSE LET g == GCD(x.d, y.d)
             IN  x.n * (y.d \div g) <= y.n * (x.d \div g) :
        x \in {a}, y \in {b} } : TRUE

FLt(x, y) == FLe(x, y) /\ x # y

FAbs(x) == [n |-> Abs(x.n), d |-> x.d]

FMaximum(a, b) ==
    CHOOSE r \in { IF IsNaN(x) \/ IsNaN(y) THEN NaN ELSE IF FLe(x, y) THEN y ELSE x :
                   x \in {a}, y \in {b} } : TRUE
FMinimum(a, b) ==
    CHOOSE r \in { IF IsNaN(x) \/ IsNaN(y) THEN NaN ELSE IF FLe(x, y) THEN x ELSE y :
                   x \in {a}, y \in {b} } : TRUE

\* np.clip(x, lo, hi) = minimum(maximum(x, lo), hi)
Clip(x, lo, hi) == FMinimum(FMaximum(x, lo), hi)

RECURSIVE FSum(_)
FSum(s) == IF s = <<>> THEN Zero ELSE FAdd(FSum(SubSeq(s, 1, Len(s) - 1)), s[Len(s)])

Last(s) == s[Len(s)]

\* ------------------------------------------------------------------ inputs
\* Parameter records passed to Generator(...); the first two are valid, each
\* of the others breaks one rule of the data model.
GeneratorSpecs ==
    { [name |-> "Coal",  p_max |-> I(2), inertia |-> I(1), damping |-> I(1),
       droop |-> Q(1, 2), response_rate |-> Q(1, 2)],
      [name |-> "Gas",   p_max |-> I(1), inertia |-> I(1), damping |-> I(0),
       droop |-> I(1),    response_rate |-> I(1)],
      [name |-> "NoDroop",   p_max |-> I(1), inertia |-> I(1), damping |-> I(1),
       droop |-> I(0),    response_rate |-> Q(1, 2)],
      [name |-> "NoPower",   p_max |-> I(0), inertia |-> I(1), damping |-> I(1),
       droop |-> Q(1, 2), response_rate |-> Q(1, 2)],
      [name |-> "NoInertia", p_max |-> I(1), inertia |-> I(0), damping |-> I(1),
       droop |-> Q(1, 2), response_rate |-> Q(1, 2)],
      [name |-> "Overshoot", p_max |-> I(1), inertia |-> I(1), damping |-> I(1),
       droop |-> Q(1, 2), response_rate |-> I(2)] }

LoadDts      == { I(1), Q(3, 2) }     \* dt passed to LoadProfile
DemandValues == { I(1), I(2) }        \* values a profile sample can take
NominalFreqs == { I(1) }              \* nominal_freq passed to Grid
GridDts      == { I(1), Q(1, 2) }     \* dt passed to Grid
GridDampings == { I(1) }              \* damping passed to Grid
UnitDampings == { I(0), I(2) }        \* other values of a unit's own damping
\* arguments of a direct dispatch call: a setpoint inside the envelope of the
\* larger unit, one above every p_max, and a negative demand share
DispatchArgs ==
    { [freq_dev |-> I(0),  demand_share |-> I(1)],
      [freq_dev |-> I(-1), demand_share |-> I(1)],
      [freq_dev |-> I(0),  demand_share |-> I(-1)] }

\* ------------------------------------------------------------------- state
VARIABLES
    pc,          \* position of the driver
    generators,  \* the Generator objects, in construction order
    load,        \* the LoadProfile object
    grid,        \* the Grid object's own fields
    frame,       \* local variables of run_simulation
    error,       \* exception that ended the program, "none" if none
    calls,       \* per unit, the arguments and results of the driver's direct
                 \* dispatch calls, in call order
    runs         \* calls of run_simulation made on the grid so far

vars == <<pc, generators, load, grid, frame, error, calls, runs>>

NoLoad  == [hours |-> Zero, dt |-> Zero, time |-> <<>>, profile |-> <<>>]
NoGrid  == [nominal_freq |-> Zero, dt |-> Zero, damping |-> Zero, frequency |-> <<>>]
NoFrame == [total_capacity |-> Zero, k |-> 0, demand |-> Zero, freq |-> Zero,
            freq_dev |-> Zero, base_shares |-> <<>>, i |-> 0, gen_power |-> Zero]

Init ==
    /\ pc = "setup"
    /\ generators = <<>>
    /\ load = NoLoad
    /\ grid = NoGrid
    /\ frame = NoFrame
    /\ error = "none"
    /\ calls = <<>>
    /\ runs = 0

\* ------------------------------------------------------------ Generator
\* Generator.__init__: stores the parameters as given
GeneratorInit(p) ==
    [name |-> p.name, p_max |-> p.p_max, inertia |-> p.inertia, damping |-> p.damping,
     droop |-> p.droop, response_rate |-> p.response_rate,
     current_output |-> Zero, p_output |-> <<>>]

RECURSIVE TotalLen(_)
TotalLen(s) == IF s = <<>> THEN 0 ELSE Len(s[Len(s)]) + TotalLen(SubSeq(s, 1, Len(s) - 1))

NewGenerator ==
    /\ pc = "setup"
    /\ Len(generators) < MaxGens
    /\ TotalLen(calls) = 0
    /\ \E p \in GeneratorSpecs : generators' = Append(generators, GeneratorInit(p))
    /\ calls' = Append(calls, <<>>)
    /\ UNCHANGED <<pc, load, grid, frame, error, runs>>

\* faulty variant: the droop term is used as the setpoint without clipping
Setpoint_Unclipped(g, freq_dev, demand_share) ==
    FSub(demand_share, FDiv(freq_dev, g.droop))

\* the droop setpoint of line 30
Setpoint(g, freq_dev, demand_share) ==
    Clip(FSub(demand_share, FDiv(freq_dev, g.droop)), Zero, g.p_max)

\* freq_dev / self.droop divides two Python numbers (frequency[-1] and
\* nominal_freq are Python numbers whenever a unit with droop 0 is reached,
\* and so are the driver's arguments): a zero droop raises ZeroDivisionError
\* before anything is assigned.
DispatchRaises(g, freq_dev, demand_share) == IsZero(g.droop)

\* faulty variant: current_output is updated but the history is not extended
dispatch_NoAppend(g, freq_dev, demand_share) ==
    LET setpoint == Setpoint(g, freq_dev, demand_share)
        out      == FAdd(g.current_output,
                         FMul(g.response_rate, FSub(setpoint, g.current_output)))
    IN  [g EXCEPT !.current_output = out]

\* faulty variant: the gap to the setpoint is taken with the wrong sign
dispatch_SignSlip(g, freq_dev, demand_share) ==
    LET setpoint == Setpoint(g, freq_dev, demand_share)
        out      == FAdd(g.current_output,
                         FMul(g.response_rate, FSub(g.current_output, setpoint)))
    IN  [g EXCEPT !.current_output = out, !.p_output = Append(@, out)]

\* faulty variant: the history records the setpoint instead of the smoothed output
dispatch_AppendSetpoint(g, freq_dev, demand_share) ==
    LET setpoint == Setpoint(g, freq_dev, demand_share)
        out      == FAdd(g.current_output,
                         FMul(g.response_rate, FSub(setpoint, g.current_output)))
    IN  [g EXCEPT !.current_output = out, !.p_output = Append(@, setpoint)]

\* Generator.dispatch: the unit after the call; the value returned is its
\* current_output
dispatch(g, freq_dev, demand_share) ==
    LET setpoint == Setpoint(g, freq_dev, demand_share)
        out      == FAdd(g.current_output,
                         FMul(g.response_rate, FSub(setpoint, g.current_output)))
    IN  [g EXCEPT !.current_output = out, !.p_output = Append(@, out)]

\* a driver calling dispatch on one of the constructed units
DirectDispatch ==
    /\ pc = "setup"
    /\ TotalLen(calls) < MaxCalls
    /\ \E u \in DOMAIN generators, a \in DispatchArgs :
         LET g  == generators[u]
             fd == a.freq_dev
             ds == a.demand_share
         IN
         IF DispatchRaises(g, fd, ds)
         THEN /\ calls' = [calls EXCEPT ![u] =
                             Append(@, [freq_dev |-> fd, demand_share |-> ds,
                                        raised |-> TRUE, ret |-> Zero])]
              /\ UNCHANGED generators
         ELSE /\ generators' = [generators EXCEPT ![u] = dispatch(g, fd, ds)]
              /\ calls' = [calls EXCEPT ![u] =
                             Append(@, [freq_dev |-> fd, demand_share |-> ds,
                                        raised |-> FALSE,
                                        ret |-> dispatch(g, fd, ds).current_output])]
    /\ UNCHANGED <<pc, load, grid, frame, error, runs>>

\* ------------------------------------------------------------ LoadProfile
\* smallest integer >= x, x finite
Ceil(x) == -((-x.n) \div x.d)

\* faulty variant: the sample count is truncated instead of rounded up
ARange_Floor(start, stop, step) ==
    LET q   == FDiv(FSub(stop, start), step)
        len == q.n \div q.d
    IN  [j \in 1..(IF len > 0 THEN len ELSE 0) |-> FAdd(start, FMul(I(j - 1), step))]

\* np.arange(start, stop, step) for step > 0: ceil((stop - start) / step)
\* samples start, start + step, ...
ARange(start, stop, step) ==
    LET len == Ceil(FDiv(FSub(stop, start), step))
    IN  [j \in 1..(IF len > 0 THEN len ELSE 0) |-> FAdd(start, FMul(I(j - 1), step))]

\* LoadProfile.__init__: samples is base_curve + noise of _generate_duck_curve,
\* one value per entry of time (the shape and the Gaussian noise are not
\* computed: any value of DemandValues can come out)
LoadProfileInit(hours, dt, samples) ==
    [hours |-> hours, dt |-> dt, time |-> ARange(Zero, hours, dt), profile |-> samples]

NewLoadProfile ==
    /\ pc = "setup"
    /\ TotalLen(calls) = 0
    /\ \E hours \in 1..MaxHours, dt \in LoadDts :
         \E samples \in [1..Len(ARange(Zero, I(hours), dt)) -> DemandValues] :
            load' = LoadProfileInit(I(hours), dt, samples)
    /\ pc' = "loaded"
    /\ UNCHANGED <<generators, grid, frame, error, calls, runs>>

\* ------------------------------------------------------------------- Grid
\* Grid.__init__: stores its arguments and seeds frequency
GridInit(nominal_freq, dt, damping) ==
    [nominal_freq |-> nominal_freq, dt |-> dt, damping |-> damping,
     frequency |-> <<nominal_freq>>]

NewGrid ==
    /\ pc = "loaded"
    /\ \E f \in NominalFreqs, dt \in GridDts, damping \in GridDampings :
         grid' = GridInit(f, dt, damping)
    /\ pc' = "ready"
    /\ UNCHANGED <<generators, load, frame, error, calls, runs>>

PMaxes    == [j \in DOMAIN generators |-> generators[j].p_max]
Inertias  == [j \in DOMAIN generators |-> generators[j].inertia]

\* line 71
RunSimulation ==
    /\ pc = "ready"
    /\ frame' = [NoFrame EXCEPT !.total_capacity = FSum(PMaxes), !.k = 1]
    /\ pc' = "loop"
    /\ runs' = runs + 1
    /\ UNCHANGED <<generators, load, grid, error, calls>>

\* g.p_max / total_capacity divides two Python numbers
SharesRaise == generators # <<>> /\ IsZero(frame.total_capacity)

BaseShares(demand) ==
    [j \in DOMAIN generators |->
        FMul(demand, FDiv(generators[j].p_max, frame.total_capacity))]

\* lines 73-78: the next load sample, the deviation and the shares
NextDemand ==
    /\ pc = "loop"
    /\ frame.k <= Len(load.profile)
    /\ LET demand   == load.profile[frame.k]
           freq     == Last(grid.frequency)
           freq_dev == FSub(freq, grid.nominal_freq)
           f        == [frame EXCEPT !.demand = demand, !.freq = freq,
                                     !.freq_dev = freq_dev]
       IN  IF SharesRaise
           THEN /\ frame' = f
                /\ pc' = "failed"
                /\ error' = "ZeroDivisionError"
           ELSE /\ frame' = [f EXCEPT !.base_shares = BaseShares(demand),
                                      !.i = 1, !.gen_power = Zero]
                /\ pc' = "dispatch"
                /\ UNCHANGED error
    /\ UNCHANGED <<generators, load, grid, calls, runs>>

\* lines 81-83: the generator expression dispatches the next unit
DispatchNext ==
    /\ pc = "dispatch"
    /\ frame.i <= Len(generators)
    /\ LET g  == generators[frame.i]
           ds == frame.base_shares[frame.i]
       IN  IF DispatchRaises(g, frame.freq_dev, ds)
           THEN /\ pc' = "failed"
                /\ error' = "ZeroDivisionError"
                /\ UNCHANGED <<generators, frame>>
           ELSE /\ generators' = [generators EXCEPT ![frame.i] = dispatch(g, frame.freq_dev, ds)]
                /\ frame' = [frame EXCEPT
                               !.gen_power = FAdd(@, dispatch(g, frame.freq_dev, ds).current_output),
                               !.i = @ + 1]
                /\ UNCHANGED <<pc, error>>
    /\ UNCHANGED <<load, grid, calls, runs>>

\* faulty variant: the demand is left out of the power imbalance
NewFreq_NoDemand ==
    LET total_inertia == FSum(Inertias)
        df_dt == FDiv(FSub(frame.gen_power, FMul(grid.damping, frame.freq_dev)),
                      FMul(FMul(I(2), total_inertia), grid.nominal_freq))
    IN  FAdd(frame.freq, FMul(df_dt, grid.dt))

\* faulty variant: the damping term is left out of the power imbalance
NewFreq_NoDamping ==
    LET total_inertia == FSum(Inertias)
        df_dt == FDiv(FSub(frame.gen_power, frame.demand),
                      FMul(FMul(I(2), total_inertia), grid.nominal_freq))
    IN  FAdd(frame.freq, FMul(df_dt, grid.dt))

\* faulty variant: the damping of the swing equation is the sum of the units'
\* own damping parameters
SwingFreq_UnitDamping(gens, gr, freq, freq_dev, demand, gen_power) ==
    LET total_inertia == FSum([j \in DOMAIN gens |-> gens[j].inertia])
        damping       == FSum([j \in DOMAIN gens |-> gens[j].damping])
        df_dt == FDiv(FSub(FSub(gen_power, demand), FMul(damping, freq_dev)),
                      FMul(FMul(I(2), total_inertia), gr.nominal_freq))
    IN  FAdd(freq, FMul(df_dt, gr.dt))

\* lines 86-88 for the units gens and the grid fields gr: the swing equation;
\* the numerator is a float64 (the demand is an entry of a numpy array), so a
\* zero total inertia gives inf or nan
SwingFreq(gens, gr, freq, freq_dev, demand, gen_power) ==
    LET total_inertia == FSum([j \in DOMAIN gens |-> gens[j].inertia])
        df_dt == FDiv(FSub(FSub(gen_power, demand), FMul(gr.damping, freq_dev)),
                      FMul(FMul(I(2), total_inertia), gr.nominal_freq))
    IN  FAdd(freq, FMul(df_dt, gr.dt))

\* lines 86-88 in the running frame
NewFreq ==
    SwingFreq(generators, grid, frame.freq, frame.freq_dev, frame.demand,
              frame.gen_power)

\* lines 86-89, after the last unit of the step has dispatched
SwingUpdate ==
    /\ pc = "dispatch"
    /\ frame.i > Len(generators)
    /\ grid' = [grid EXCEPT !.frequency = Append(@, NewFreq)]
    /\ frame' = [frame EXCEPT !.k = @ + 1]
    /\ pc' = "loop"
    /\ UNCHANGED <<generators, load, error, calls, runs>>

\* faulty variant: the loop also stops once the frequency is back at nominal
ReturnFromRun_Converged ==
    /\ pc = "loop"
    /\ \/ frame.k > Len(load.profile)
       \/ Last(grid.frequency) = grid.nominal_freq
    /\ pc' = "done"
    /\ UNCHANGED <<generators, load, grid, frame, error, calls, runs>>

\* line 73, the profile is exhausted: run_simulation returns
ReturnFromRun ==
    /\ pc = "loop"
    /\ frame.k > Len(load.profile)
    /\ pc' = "done"
    /\ UNCHANGED <<generators, load, grid, frame, error, calls, runs>>

\* ------------------------------------------- run_simulation as a function
\* lines 81-83 as a whole: the units from position i on dispatch in list
\* order; a raising unit ends the step with the earlier units already updated
RECURSIVE DispatchUnits(_, _, _, _, _)
DispatchUnits(gens, i, freq_dev, shares, gen_power) ==
    IF i > Len(gens)
    THEN [generators |-> gens, gen_power |-> gen_power, raised |-> FALSE]
    ELSE IF DispatchRaises(gens[i], freq_dev, shares[i])
    THEN [generators |-> gens, gen_power |-> gen_power, raised |-> TRUE]
    ELSE LET g2 == dispatch(gens[i], freq_dev, shares[i])
         IN  DispatchUnits([gens EXCEPT ![i] = g2], i + 1, freq_dev, shares,
                           FAdd(gen_power, g2.current_output))

\* lines 71-89: the loop from sample k on, for the units gens and the grid
\* fields gr; the result holds the objects as the call leaves them
RECURSIVE SimulateFrom(_, _, _, _)
SimulateFrom(gens, gr, profile, k) ==
    IF k > Len(profile)
    THEN [generators |-> gens, grid |-> gr, raised |-> FALSE]
    ELSE
    LET total_capacity == FSum([j \in DOMAIN gens |-> gens[j].p_max])
        demand         == profile[k]
        freq           == Last(gr.frequency)
        freq_dev       == FSub(freq, gr.nominal_freq)
        shares         == [j \in DOMAIN gens |->
                             FMul(demand, FDiv(gens[j].p_max, total_capacity))]
        step           == DispatchUnits(gens, 1, freq_dev, shares, Zero)
        new_freq       == SwingFreq(step.generators, gr, freq, freq_dev, demand,
                                    step.gen_power)
    IN  IF gens # <<>> /\ IsZero(total_capacity)
        THEN [generators |-> gens, grid |-> gr, raised |-> TRUE]
        ELSE IF step.raised
        THEN [generators |-> step.generators, grid |-> gr, raised |-> TRUE]
        ELSE SimulateFrom(step.generators,
                          [gr EXCEPT !.frequency = Append(@, new_freq)],
                          profile, k + 1)

\* Grid.run_simulation called on the units gens and the grid fields gr
Simulate(gens, gr, profile) == SimulateFrom(gens, gr, profile, 1)

\* ----------------------------------------------------------- specifications
\* the program of the example: construct, then run the simulation once
Next ==
    \/ NewGenerator
    \/ NewLoadProfile
    \/ NewGrid
    \/ RunSimulation
    \/ NextDemand
    \/ DispatchNext
    \/ SwingUpdate
    \/ ReturnFromRun

Spec == Init /\ [][Next]_vars

\* the same program; the interpreter always takes the next step of a program
\* that has one
SpecFair == Init /\ [][Next]_vars /\ WF_vars(Next)

\* faulty variant: a further call starts from a freshly seeded frequency
\* sequence and from units at rest
RunAgain_Reset ==
    /\ pc = "done"
    /\ runs * Len(load.profile) + Len(load.profile) <= MaxSteps
    /\ frame' = [NoFrame EXCEPT !.total_capacity = FSum(PMaxes), !.k = 1]
    /\ grid' = [grid EXCEPT !.frequency = <<grid.nominal_freq>>]
    /\ generators' = [j \in DOMAIN generators |->
                         [generators[j] EXCEPT !.current_output = Zero,
                                               !.p_output = <<>>]]
    /\ pc' = "loop"
    /\ runs' = runs + 1
    /\ UNCHANGED <<load, error, calls>>

\* line 71 again: run_simulation is called once more on the same Grid object
\* after the previous call has returned; nothing is reset
RunAgain ==
    /\ pc = "done"
    /\ runs * Len(load.profile) + Len(load.profile) <= MaxSteps
    /\ frame' = [NoFrame EXCEPT !.total_capacity = FSum(PMaxes), !.k = 1]
    /\ pc' = "loop"
    /\ runs' = runs + 1
    /\ UNCHANGED <<generators, load, grid, error, calls>>

\* the program of the example followed by further calls of run_simulation
NextRerun ==
    \/ Next
    \/ RunAgain

SpecRerun == Init /\ [][NextRerun]_vars

\* a driver that constructs units and calls dispatch on them directly
NextUnit ==
    \/ NewGenerator
    \/ DirectDispatch

SpecUnit == Init /\ [][NextUnit]_vars

\* ------------------------------------------------------------------ claims
\* the data model's rules for one unit
ValidGenerator(g) ==
    /\ FLt(Zero, g.p_max)
    /\ FLt(Zero, g.inertia)
    /\ ~IsZero(g.droop)
    /\ FLt(Zero, g.response_rate) /\ FLe(g.response_rate, One)

ValidConfiguration ==
    /\ generators # <<>>
    /\ \A j \in DOMAIN generators : ValidGenerator(generators[j])

GridConstructed == pc \in {"ready", "loop", "dispatch", "done", "failed"}
RunEntered      == pc \in {"loop", "dispatch", "done", "failed"}

\* C1: after a complete run on a valid configuration the frequency sequence
\* has one entry more than the load profile and every unit's output history
\* has exactly one entry per load sample.
C1_Lengths ==
    (pc = "done" /\ ValidConfiguration) =>
        /\ Len(grid.frequency) = Len(load.profile) + 1
        /\ \A j \in DOMAIN generators :
              Len(generators[j].p_output) = Len(load.profile)

C1_Witness ==
    /\ pc = "done"
    /\ ValidConfiguration
    /\ Len(generators) >= 2
    /\ Len(load.profile) >= 2

\* C2: a unit with p_max > 0 and response_rate in (0, 1] stays inside its
\* capability envelope whatever arguments dispatch is called with:
\* 0 <= current_output <= p_max, and the same for every history entry.
InEnvelope(x, g) == FLe(Zero, x) /\ FLe(x, g.p_max)

C2_Envelope ==
    \A j \in DOMAIN generators :
        LET g == generators[j] IN
        (FLt(Zero, g.p_max) /\ FLt(Zero, g.response_rate) /\ FLe(g.response_rate, One)) =>
            /\ InEnvelope(g.current_output, g)
            /\ \A t \in DOMAIN g.p_output : InEnvelope(g.p_output[t], g)

\* the droop term before clipping, for a unit with droop # 0
RawSetpoint(g, c) == FSub(c.demand_share, FDiv(c.freq_dev, g.droop))

\* a valid unit that was asked for more than p_max, and for less than 0 with
\* a negative demand share
C2_Witness ==
    \E j \in DOMAIN generators :
        LET g == generators[j] IN
        /\ ValidGenerator(g)
        /\ \E a \in DOMAIN calls[j] : FLt(g.p_max, RawSetpoint(g, calls[j][a]))
        /\ \E b \in DOMAIN calls[j] :
              /\ FLt(calls[j][b].demand_share, Zero)
              /\ FLt(RawSetpoint(g, calls[j][b]), Zero)
        /\ \E t \in DOMAIN g.p_output : FLt(Zero, g.p_output[t])

\* C3: a Generator with droop = 0 and a Grid with an empty generator list are
\* rejected at construction: no such object ever exists, and no frequency or
\* output history is produced for one.
C3_RejectedAtConstruction ==
    /\ \A j \in DOMAIN generators : ~IsZero(generators[j].droop)
    /\ GridConstructed => generators # <<>>

\* C4: a run is all-or-nothing: when it fails nothing has been mutated
\* (frequency is still [nominal_freq], every unit still has output 0 and an
\* empty history), and when it completes the sequences have full length.
C4_AllOrNothing ==
    /\ pc = "failed" =>
          /\ grid.frequency = <<grid.nominal_freq>>
          /\ \A j \in DOMAIN generators :
                /\ generators[j].current_output = Zero
                /\ generators[j].p_output = <<>>
    /\ pc = "done" =>
          /\ Len(grid.frequency) = Len(load.profile) + 1
          /\ \A j \in DOMAIN generators :
                Len(generators[j].p_output) = Len(load.profile)

\* C5: p_max <= 0, inertia <= 0, response_rate outside (0, 1] and a grid dt
\* different from the load profile's dt are detected at construction, so
\* run_simulation is never entered with such a configuration.
C5_DetectedAtConstruction ==
    RunEntered =>
        /\ \A j \in DOMAIN generators :
              /\ FLt(Zero, generators[j].p_max)
              /\ FLt(Zero, generators[j].inertia)
              /\ FLt(Zero, generators[j].response_rate)
              /\ FLe(generators[j].response_rate, One)
        /\ grid.dt = load.dt

\* clip(demand_share - freq_dev / droop, 0, p_max), written out
DroopSetpoint(g, freq_dev, demand_share) ==
    LET raw == FSub(demand_share, FDiv(freq_dev, g.droop))
        low == IF FLe(raw, Zero) THEN Zero ELSE raw
    IN  IF FLe(g.p_max, low) THEN g.p_max ELSE low

ConstantProfile ==
    \A a, b \in DOMAIN load.profile : load.profile[a] = load.profile[b]

\* constant demand D that the units' shares at nominal frequency add up to
Balanced ==
    /\ GridConstructed
    /\ ValidConfiguration
    /\ load.profile # <<>>
    /\ ConstantProfile
    /\ FLe(Zero, load.profile[1])
    /\ FLe(load.profile[1], FSum(PMaxes))

AtNominal == \A t \in DOMAIN grid.frequency : grid.frequency[t] = grid.nominal_freq

\* C6 as stated: under balanced constant load, starting at nominal frequency,
\* every entry of frequency equals nominal_freq.
C6_Original == Balanced => AtNominal

AllImmediate == \A j \in DOMAIN generators : generators[j].response_rate = One

\* C6 as amended: under balanced constant load, starting at nominal frequency,
\* and with response_rate = 1 for every unit, every entry of frequency equals
\* nominal_freq.
C6_Amended == (Balanced /\ AllImmediate) => AtNominal

C6_Witness ==
    /\ pc = "done"
    /\ Balanced
    /\ AllImmediate
    /\ Len(generators) >= 2
    /\ Len(grid.frequency) >= 3

RECURSIVE FPow(_, _)
FPow(x, k) == IF k = 0 THEN One ELSE FMul(x, FPow(x, k - 1))

\* distance of the unit's t-th history entry to the setpoint of its a-th call
Distance(j, t, a) ==
    LET g == generators[j]
        c == calls[j][a]
    IN  FAbs(FSub(g.p_output[t], DroopSetpoint(g, c.freq_dev, c.demand_share)))

Smoothing(g) ==
    /\ ~IsZero(g.droop)
    /\ FLt(Zero, g.response_rate) /\ FLt(g.response_rate, One)

ConstantDemand(j)  == \A a, b \in DOMAIN calls[j] :
                          calls[j][a].demand_share = calls[j][b].demand_share
ConstantFreqDev(j) == \A a, b \in DOMAIN calls[j] :
                          calls[j][a].freq_dev = calls[j][b].freq_dev

Geometric(j) ==
    LET g == generators[j] IN
    \A t \in DOMAIN g.p_output :
        /\ FLe(Distance(j, t, t),
               FMul(FPow(FSub(One, g.response_rate), t - 1), Distance(j, 1, 1)))
        /\ t > 1 => FLe(Distance(j, t, t), Distance(j, t - 1, t - 1))

\* C7 as stated: with constant demand and response_rate < 1 the distance of
\* the output to the droop setpoint shrinks geometrically,
\* |out[t] - setpoint| <= (1 - response_rate)^t * |out[0] - setpoint|, and
\* never grows from one step to the next.
C7_Original ==
    \A j \in DOMAIN generators :
        (Smoothing(generators[j]) /\ ConstantDemand(j)) => Geometric(j)

\* C7 as amended: the same bound, for dispatch calls whose demand share and
\* frequency deviation are both constant (a fixed setpoint).
C7_Amended ==
    \A j \in DOMAIN generators :
        (Smoothing(generators[j]) /\ ConstantDemand(j) /\ ConstantFreqDev(j)) => Geometric(j)

C7_Witness ==
    \E j \in DOMAIN generators :
        /\ Smoothing(generators[j])
        /\ ConstantDemand(j) /\ ConstantFreqDev(j)
        /\ Len(generators[j].p_output) >= 3
        /\ FLt(Zero, Distance(j, 3, 3))

LoadConstructed == pc # "setup"

TimeGrid ==
    /\ Len(load.profile) = Len(load.time)
    /\ \A j \in DOMAIN load.time : load.time[j] = FMul(I(j - 1), load.dt)

\* C8 as stated: time and profile have the same length N = floor(hours/dt)
\* and time[i] = i*dt.
C8_Original ==
    LoadConstructed =>
        /\ TimeGrid
        /\ FLe(FMul(I(Len(load.time)), load.dt), load.hours)
        /\ FLt(load.hours, FMul(I(Len(load.time) + 1), load.dt))

\* C8 as amended: time and profile have the same length N = ceil(hours/dt),
\* the number of multiples of dt below hours, and time[i] = i*dt.
C8_Amended ==
    LoadConstructed =>
        /\ TimeGrid
        /\ FLt(FMul(I(Len(load.time) - 1), load.dt), load.hours)
        /\ FLe(load.hours, FMul(I(Len(load.time)), load.dt))

C8_Witness ==
    /\ LoadConstructed
    /\ Len(load.time) >= 2
    /\ FLt(load.hours, FMul(I(Len(load.time)), load.dt))

Static(g) == <<g.name, g.p_max, g.inertia, g.damping, g.droop, g.response_rate>>

\* the smoothed output a call with arguments c gives from the unit g
SmoothedOutput(g, c) ==
    FAdd(g.current_output,
         FMul(g.response_rate,
              FSub(DroopSetpoint(g, c.freq_dev, c.demand_share), g.current_output)))

\* g2 is the unit g after the call c
Dispatched(g, g2, c) ==
    /\ g2.current_output = SmoothedOutput(g, c)
    /\ g2.p_output = Append(g.p_output, SmoothedOutput(g, c))
    /\ c.ret = SmoothedOutput(g, c)
    /\ Static(g2) = Static(g)

C9_Step ==
    \A u \in DOMAIN generators :
        (Len(calls'[u]) = Len(calls[u]) + 1 /\ ~Last(calls'[u]).raised) =>
            /\ Dispatched(generators[u], generators'[u], Last(calls'[u]))
            /\ \A v \in DOMAIN generators : v # u => generators'[v] = generators[v]

\* C9: a dispatch call moves current_output towards the clipped droop setpoint
\* by response_rate of the gap, appends exactly that value to the unit's own
\* history and returns it; earlier entries, the static parameters and every
\* other unit are left unchanged.
C9_Dispatch == [][C9_Step]_vars

C9_Witness ==
    \E u, v \in DOMAIN generators :
        /\ u # v
        /\ Len(generators[u].p_output) >= 2
        /\ generators[u].p_output[1] # generators[u].p_output[2]
        /\ Len(generators[v].p_output) >= 1

\* output of unit j at step t as the dispatch law gives it from the previous
\* output, the step's deviation and the unit's capacity share of the demand
StepOutput(j, t) ==
    LET g     == generators[j]
        prev  == IF t = 1 THEN Zero ELSE g.p_output[t - 1]
        dev   == FSub(grid.frequency[t], grid.nominal_freq)
        share == FMul(load.profile[t], FDiv(g.p_max, FSum(PMaxes)))
    IN  FAdd(prev, FMul(g.response_rate, FSub(DroopSetpoint(g, dev, share), prev)))

\* frequency after step t as the swing equation gives it
StepFrequency(t) ==
    LET dev   == FSub(grid.frequency[t], grid.nominal_freq)
        power == FSum([j \in DOMAIN generators |-> generators[j].p_output[t]])
        df_dt == FDiv(FSub(FSub(power, load.profile[t]), FMul(grid.damping, dev)),
                      FMul(FMul(I(2), FSum(Inertias)), grid.nominal_freq))
    IN  FAdd(grid.frequency[t], FMul(df_dt, grid.dt))

C10_Recurrence ==
    RunEntered =>
        /\ grid.frequency[1] = grid.nominal_freq
        /\ \A j \in DOMAIN generators :
              /\ Len(generators[j].p_output) \in {Len(grid.frequency) - 1, Len(grid.frequency)}
              /\ \A t \in DOMAIN generators[j].p_output :
                    generators[j].p_output[t] = StepOutput(j, t)
        /\ \A t \in 1..(Len(grid.frequency) - 1) :
              grid.frequency[t + 1] = StepFrequency(t)

C10_AppendOnly ==
    /\ Len(grid.frequency') \in {Len(grid.frequency), Len(grid.frequency) + 1}
    /\ SubSeq(grid.frequency', 1, Len(grid.frequency)) = grid.frequency

\* C10: every step dispatches all units with the deviation of the previous
\* frequency and their capacity share of the demand, and only then appends
\* one frequency f_prev + ((gen_power - D - damping*freq_dev) /
\* (2*H_total*nominal_freq)) * dt; frequency[0] is nominal_freq and earlier
\* entries are never modified.
C10_SwingStep == []C10_Recurrence /\ [][C10_AppendOnly]_vars

C10_Witness ==
    /\ pc = "done"
    /\ Len(generators) >= 2
    /\ Len(grid.frequency) >= 3
    /\ \A t \in DOMAIN grid.frequency : IsFinite(grid.frequency[t])
    /\ grid.frequency[2] # grid.nominal_freq
    /\ grid.frequency[3] # grid.frequency[2]

\* C11: on a valid configuration run_simulation terminates, after exactly
\* len(load.profile) loop iterations: one per load sample, whatever frequency
\* and outputs are reached, with no early exit.
C11_Terminates ==
    /\ (pc = "ready" /\ ValidConfiguration) ~> (pc = "done")
    /\ [](pc = "done" => frame.k = Len(load.profile) + 1)
    /\ [][(RunEntered /\ frame'.k # frame.k) =>
              (pc = "dispatch" /\ frame.i > Len(generators) /\ frame'.k = frame.k + 1)]_vars

C11_Witness ==
    /\ pc = "done"
    /\ ValidConfiguration
    /\ frame.k = 3
    /\ Len(load.profile) = 2
    /\ grid.frequency[3] # grid.nominal_freq

\* the units as Generator(...) constructed them
FreshUnits == [j \in DOMAIN generators |-> GeneratorInit(generators[j])]

\* the grid as Grid(...) constructed it
FreshGrid == GridInit(grid.nominal_freq, grid.dt, grid.damping)

RunEnded == pc \in {"done", "failed"}

Orders(n) ==
    { p \in [1..n -> 1..n] : \A a, b \in 1..n : a # b => p[a] # p[b] }

\* the same grid built with the unit at position p[j] placed at position j
Permuted(p) ==
    Simulate([j \in DOMAIN generators |-> FreshUnits[p[j]]], FreshGrid, load.profile)

\* C12: whatever the order of the generator list, a run leaves every unit
\* with the same output history and the grid with the same frequency
\* sequence as the run in the original order.
C12_OrderIndependent ==
    RunEnded =>
        \A p \in Orders(Len(generators)) :
            /\ Permuted(p).grid.frequency = grid.frequency
            /\ \A j \in DOMAIN generators :
                  Permuted(p).generators[j].p_output = generators[p[j]].p_output

\* the units and the grid after k complete calls of run_simulation, each call
\* made on the objects as the previous call left them
RECURSIVE AfterRuns(_)
AfterRuns(k) ==
    IF k = 0
    THEN [generators |-> FreshUnits, grid |-> FreshGrid, raised |-> FALSE]
    ELSE LET before == AfterRuns(k - 1)
         IN  Simulate(before.generators, before.grid, load.profile)

IsPrefix(s, t) == Len(s) <= Len(t) /\ SubSeq(t, 1, Len(s)) = s

\* the lengths after runs complete calls
Appended ==
    /\ Len(grid.frequency) = runs * Len(load.profile) + 1
    /\ \A j \in DOMAIN generators :
          Len(generators[j].p_output) = runs * Len(load.profile)

\* the latest call continued from what the calls before it left behind
Continued ==
    LET now == AfterRuns(runs)
    IN  grid = now.grid /\ generators = now.generators

\* the entries of the first call are still there, in front
FirstRunKept ==
    runs >= 1 =>
        LET first == AfterRuns(1)
        IN  /\ IsPrefix(first.grid.frequency, grid.frequency)
            /\ \A j \in DOMAIN generators :
                  IsPrefix(first.generators[j].p_output, generators[j].p_output)

\* C13: run_simulation called again on the same grid appends: after k
\* complete calls the frequency sequence has k*len(profile)+1 entries and every
\* history k*len(profile), each call continues from the final frequency and the
\* final current_output of the call before, and the entries of the first call
\* stay in front.
C13_RerunAppends ==
    pc = "done" => (Appended /\ Continued /\ FirstRunKept)

C13_Witness ==
    /\ pc = "done"
    /\ runs = 2
    /\ Len(load.profile) = 2
    /\ Len(grid.frequency) = 5
    /\ generators # <<>>
    /\ grid.frequency[5] # grid.frequency[3]

\* the same grid built from units that differ only in their own damping
Redamped(d) ==
    Simulate([j \in DOMAIN generators |-> [FreshUnits[j] EXCEPT !.damping = d[j]]],
             FreshGrid, load.profile)

SameTrajectory(other) ==
    /\ other.raised = (pc = "failed")
    /\ other.grid.frequency = grid.frequency
    /\ \A j \in DOMAIN generators :
          other.generators[j].p_output = generators[j].p_output

\* C14: a unit's own damping has no influence: a grid whose units differ only
\* in their damping values yields the same frequency sequence and the same
\* output history for every unit.
C14_UnitDampingIgnored ==
    RunEnded =>
        \A d \in [DOMAIN generators -> UnitDampings] : SameTrajectory(Redamped(d))

C14_Witness ==
    /\ pc = "done"
    /\ ValidConfiguration
    /\ Len(load.profile) = 2
    /\ grid.frequency[2] # grid.nominal_freq
    /\ \E j \in DOMAIN generators : generators[j].damping \notin UnitDampings

====
